---- MODULE Spec2Model ----
(***************************************************************************)
(* A model of app.py, the TXT -> EPUB converter: the chapter-title         *)
(* classifier, the chapter-splitting scan, the chapter filter merge, the   *)
(* EPUB packager build_epub_buffer, and the Streamlit script that drives   *)
(* them from the widgets and the session state.                            *)
(*                                                                         *)
(* A string of the program is a sequence of characters, so that strip,    *)
(* html.escape, the regular expressions and the substring test are        *)
(* computed character by character.  An ASCII character is written as     *)
(* itself; a Hangul syllable is written as its romanisation with the      *)
(* prefix ko_ ("ko_je" is the syllable of "je 1 hwa", chapter 1), and the  *)
(* horizontal ellipsis as "ellipsis".                                      *)
(***************************************************************************)
EXTENDS Integers, Sequences, FiniteSets, TLC

(* ------------------------------------------------------------------ *)
(* Bounds of the model and constants of the program                   *)
(* ------------------------------------------------------------------ *)

\* Longest text, in lines, that is enumerated over the whole line alphabet.
MaxLines == 3

\* Most images one search returns in the model (the program asks for max_results).
MaxResults == 1

chunk_size == 100

max_results == 6

MaxTitleLen == 50

BracketLen == 20

(* ------------------------------------------------------------------ *)
(* Characters and strings                                             *)
(* ------------------------------------------------------------------ *)

Digits == {"0", "1", "2", "3", "4", "5", "6", "7", "8", "9"}

Whitespace == {" ", "\t"}

\* The index of the first character at or after i that is not in S (Len(s)+1 if none).
SkipWhile(s, i, S) ==
    CHOOSE j \in i..(Len(s) + 1) :
        /\ \A k \in i..(j - 1) : s[k] \in S
        /\ (j = Len(s) + 1 \/ s[j] \notin S)

\* One optional character of S at i.
SkipOpt(s, i, S) == IF i <= Len(s) /\ s[i] \in S THEN i + 1 ELSE i

At(s, i, S) == i >= 1 /\ i <= Len(s) /\ s[i] \in S

\* str.strip()
strip(s) ==
    LET inner == {i \in 1..Len(s) : s[i] \notin Whitespace}
    IN  IF inner = {} THEN <<>>
        ELSE LET a == CHOOSE i \in inner : \A j \in inner : i <= j
                 b == CHOOSE i \in inner : \A j \in inner : i >= j
             IN  SubSeq(s, a, b)

\* html.escape of one character (quote=True)
escape_char(c) ==
    CASE c = "&" -> <<"&", "a", "m", "p", ";">>
      [] c = "<" -> <<"&", "l", "t", ";">>
      [] c = ">" -> <<"&", "g", "t", ";">>
      [] c = "\"" -> <<"&", "q", "u", "o", "t", ";">>
      [] c = "'" -> <<"&", "#", "x", "2", "7", ";">>
      [] OTHER -> <<c>>

RECURSIVE html_escape(_)
html_escape(s) ==
    IF s = <<>> THEN <<>> ELSE escape_char(Head(s)) \o html_escape(Tail(s))

\* needle in s (Python's substring test)
Contains(s, needle) ==
    \E i \in 1..(Len(s) - Len(needle) + 1) :
        SubSeq(s, i, i + Len(needle) - 1) = needle

(* ------------------------------------------------------------------ *)
(* is_chapter_title                                                   *)
(* ------------------------------------------------------------------ *)

UnitSuffix == {"ko_hwa", "ko_jang", "ko_hoe", "ko_jeol", "ko_pyeon", "ko_bu", "ko_gwon"}

\* [Chapter|CHAPTER|chapter] is a character class; re.IGNORECASE folds case.
ChapterClass ==
    {"C", "H", "A", "P", "T", "E", "R", "c", "h", "a", "p", "t", "e", "r", "|"}

\* [EP|ep|Ep]
EpClass == {"E", "P", "e", "p", "|"}

\* [ko_peu ko_rol ko_ro ko_geu | ko_e ko_pil ko_ro ko_geu | ko_peu olog | epilogue]:
\* a character class, not an alternation of words; re.IGNORECASE folds case.
PrologueClass ==
    {"ko_peu", "ko_rol", "ko_ro", "ko_geu", "ko_e", "ko_pil", "|",
     "o", "l", "g", "e", "p", "i", "u", "O", "L", "G", "E", "P", "I", "U"}

\* ^ko_je\s?\d+\s?[UnitSuffix]
MatchJe(cl) ==
    /\ At(cl, 1, {"ko_je"})
    /\ LET a == SkipOpt(cl, 2, Whitespace)
           b == SkipWhile(cl, a, Digits)
           c == SkipOpt(cl, b, Whitespace)
       IN  b > a /\ At(cl, c, UnitSuffix)

\* ^\d+\s*[.-]\s*\S
MatchNumbered(cl) ==
    LET a == SkipWhile(cl, 1, Digits)
        b == SkipWhile(cl, a, Whitespace)
        c == SkipWhile(cl, b + 1, Whitespace)
    IN  a > 1 /\ At(cl, b, {".", "-"}) /\ c <= Len(cl)

\* ^[Chapter|CHAPTER|chapter]\s+\d+
MatchChapter(cl) ==
    /\ At(cl, 1, ChapterClass)
    /\ LET a == SkipWhile(cl, 2, Whitespace)
       IN  a > 2 /\ At(cl, a, Digits)

\* ^[EP|ep|Ep]\s*\.?\s*\d+
MatchEp(cl) ==
    /\ At(cl, 1, EpClass)
    /\ LET a == SkipWhile(cl, 2, Whitespace)
           b == SkipOpt(cl, a, {"."})
           c == SkipWhile(cl, b, Whitespace)
       IN  At(cl, c, Digits)

\* ^\[\s*\d+\s*\]
MatchBracketNum(cl) ==
    /\ At(cl, 1, {"["})
    /\ LET a == SkipWhile(cl, 2, Whitespace)
           b == SkipWhile(cl, a, Digits)
           c == SkipWhile(cl, b, Whitespace)
       IN  b > a /\ At(cl, c, {"]"})

\* ^[...prologue|epilogue class...]
MatchPrologue(cl) == At(cl, 1, PrologueClass)

\* ^\d+$
MatchDigitsOnly(cl) == Len(cl) >= 1 /\ \A i \in 1..Len(cl) : cl[i] \in Digits

\* re.search(r'\d+\s?ko_dae\s?\d+', cl)
IsScore(cl) ==
    \E i \in 1..Len(cl) :
        /\ cl[i] \in Digits
        /\ LET a == SkipOpt(cl, i + 1, Whitespace)
           IN  At(cl, a, {"ko_dae"}) /\ At(cl, SkipOpt(cl, a + 1, Whitespace), Digits)

\* re.search(r'\d{4}[-./]\d{1,2}[-./]\d{1,2}', cl)
IsDate(cl) ==
    \E i \in 1..Len(cl) : \E n \in {1, 2} :
        /\ \A k \in i..(i + 3) : At(cl, k, Digits)
        /\ At(cl, i + 4, {"-", ".", "/"})
        /\ \A k \in (i + 5)..(i + 4 + n) : At(cl, k, Digits)
        /\ At(cl, i + 5 + n, {"-", ".", "/"})
        /\ At(cl, i + 6 + n, Digits)

\* the patterns list: any pattern matches
MatchesAnyPattern(cl) ==
    \/ MatchJe(cl)
    \/ MatchNumbered(cl)
    \/ MatchChapter(cl)
    \/ MatchEp(cl)
    \/ MatchBracketNum(cl)
    \/ MatchPrologue(cl)
    \/ MatchDigitsOnly(cl)

\* ^[[<].+[]>]$ with len(cl) < 20 and none of . ! ? ...
MatchWrapped(cl) ==
    /\ Len(cl) >= 3
    /\ cl[1] \in {"[", "<"}
    /\ cl[Len(cl)] \in {"]", ">"}
    /\ Len(cl) < BracketLen
    /\ \A i \in 1..Len(cl) : cl[i] \notin {".", "!", "?", "ellipsis"}

is_chapter_title(line) ==
    LET cl == strip(line)
    IN  IF Len(cl) = 0 \/ Len(cl) > MaxTitleLen THEN FALSE
        ELSE \/ MatchesAnyPattern(cl) /\ ~IsScore(cl) /\ ~IsDate(cl)
             \/ MatchWrapped(cl)

(* ------------------------------------------------------------------ *)
(* Literal strings of the program                                     *)
(* ------------------------------------------------------------------ *)

\* the accumulator's first title, "start"
START_TITLE == <<"ko_si", "ko_jak">>

\* the title "body" of the filter's first bucket and of the no-split chapter
BODY_TITLE == <<"ko_bon", "ko_mun">>

\* "(continued)", the mark the packager looks for
CONT_MARK == <<"(", "ko_gye", "ko_sok", ")">>

\* f"{ch_t} (continued)"
ContinuedTitle(ch_t) == ch_t \o <<" ">> \o CONT_MARK

\* f"[{t}]"
Bracketed(t) == <<"[">> \o t \o <<"]">>

\* the font option that embeds the font file
RIDI == "RIDIBatang"

\* final_cover_io = None
NoCover == "None"

(* ------------------------------------------------------------------ *)
(* The chapter-splitting scan and the chapter filter merge            *)
(* ------------------------------------------------------------------ *)

\* a (title, lines) pair
Chapter(t, l) == [t |-> t, l |-> l]

\* [html.escape(l) for l in lines]
EscapeAll(lines) == [k \in 1..Len(lines) |-> html_escape(lines[k])]

\* the lines the loop does not skip: cl = line.strip(), continue when empty
Scanned(raw_lines) ==
    LET NonEmpty(cl) == cl # <<>>
    IN  SelectSeq([k \in 1..Len(raw_lines) |-> strip(raw_lines[k])], NonEmpty)

\* Flush without its test: an empty accumulator is appended too.
Flush_AppendEmpty(temp, curr_t, curr_l) == Append(temp, Chapter(curr_t, curr_l))

\* temp_chapters.append((curr_t, curr_l)) when curr_l is not empty
Flush(temp, curr_t, curr_l) ==
    IF curr_l # <<>> THEN Append(temp, Chapter(curr_t, curr_l)) ELSE temp

\* the positions, in order, of the scanned lines that is_chapter_title accepts
TitlePositions(cls) ==
    LET IsTitleAt(k) == is_chapter_title(cls[k])
    IN  SelectSeq([k \in 1..Len(cls) |-> k], IsTitleAt)

\* The for loop from the i-th scanned line on, with curr_l empty; titles are the
\* positions of the title lines from i on. The lines up to the next title line
\* (at j) are escaped and appended to curr_l one after the other; the title line
\* flushes the accumulator and resets it to (cls[j], []); the end of the text
\* flushes it.
RECURSIVE SplitScan(_, _, _, _, _)
SplitScan(cls, titles, i, temp, curr_t) ==
    LET j == IF titles = <<>> THEN Len(cls) + 1 ELSE Head(titles)
        curr_l == EscapeAll(SubSeq(cls, i, j - 1))
    IN  IF j > Len(cls) THEN Flush(temp, curr_t, curr_l)
        ELSE SplitScan(cls, Tail(titles), j + 1, Flush(temp, curr_t, curr_l), cls[j])

split_chapters(raw_lines) ==
    LET cls == Scanned(raw_lines)
    IN  SplitScan(cls, TitlePositions(cls), 1, <<>>, START_TITLE)

\* MergeStep that folds the lines of an excluded chapter without its title.
MergeStep_DropTitle(processed_ch, c, kept) ==
    IF kept THEN Append(processed_ch, c)
    ELSE IF processed_ch # <<>>
         THEN [processed_ch EXCEPT ![Len(processed_ch)].l = @ \o c.l]
         ELSE Append(processed_ch, Chapter(BODY_TITLE, c.l))

\* one step of the filter: the chapter at idx is kept, or folded into the
\* last kept chapter, or opens the BODY_TITLE bucket
MergeStep(processed_ch, c, kept) ==
    IF kept THEN Append(processed_ch, c)
    ELSE IF processed_ch # <<>>
         THEN [processed_ch EXCEPT
                  ![Len(processed_ch)].l = @ \o <<Bracketed(c.t)>> \o c.l]
         ELSE Append(processed_ch, Chapter(BODY_TITLE, <<Bracketed(c.t)>> \o c.l))

\* the for loop over enumerate(temp_chapters) from index idx (0-based) on
RECURSIVE MergeScan(_, _, _, _)
MergeScan(temp, idx, selected_indices, processed_ch) ==
    IF idx >= Len(temp) THEN processed_ch
    ELSE MergeScan(temp, idx + 1, selected_indices,
                   MergeStep(processed_ch, temp[idx + 1], idx \in selected_indices))

merge_chapters(temp, selected_indices) ==
    IF temp # <<>> THEN MergeScan(temp, 0, selected_indices, <<>>) ELSE <<>>

\* [html.escape(l.strip()) for l in raw_lines if l.strip()]
escaped_lines(raw_lines) == EscapeAll(Scanned(raw_lines))

\* final_chapters of the no-split mode
unsplit_chapters(raw_lines) == <<Chapter(BODY_TITLE, escaped_lines(raw_lines))>>

RECURSIVE total_lines(_)
total_lines(chs) ==
    IF chs = <<>> THEN 0 ELSE Len(Head(chs).l) + total_lines(Tail(chs))

(* ------------------------------------------------------------------ *)
(* build_epub_buffer                                                  *)
(* ------------------------------------------------------------------ *)

\* an archive member name: directory components, file name, chapter number
\* (ch_N.xhtml with n = N; n = 0 for the fixed names)
Name(dir, file, n) == [dir |-> dir, file |-> file, n |-> n]

\* fname = f"ch_{i}.xhtml"
fname(i) == Name(<<>>, "ch_N.xhtml", i)

\* f"OEBPS/{...}"
InOEBPS(name) == [name EXCEPT !.dir = <<"OEBPS">> \o @]

\* an id of the package document: "ncx", "s", "f", "cover", f"c{i}", f"p{i}"
Id(tag, n) == [tag |-> tag, n |-> n]

\* zf.writestr(name, content, compress_type)
Entry(name, compress, content) ==
    [name |-> name, compress |-> compress, content |-> content]

\* range(0, len(ch_l), chunk_size)
NumChunks(n) == (n + chunk_size - 1) \div chunk_size

\* ch_l[i:i+chunk_size] for the k-th chunk, i = (k-1)*chunk_size
ChunkLines(ch_l, k) ==
    SubSeq(ch_l, (k - 1) * chunk_size + 1,
           IF k * chunk_size < Len(ch_l) THEN k * chunk_size ELSE Len(ch_l))

\* the (sub_t, sub_l) pairs of one chapter
ChunksOf(ch) ==
    [k \in 1..NumChunks(Len(ch.l)) |->
        Chapter(IF k = 1 THEN ch.t ELSE ContinuedTitle(ch.t), ChunkLines(ch.l, k))]

RECURSIVE processed_chunks(_)
processed_chunks(chapters_to_include) ==
    IF chapters_to_include = <<>> THEN <<>>
    ELSE ChunksOf(Head(chapters_to_include))
         \o processed_chunks(Tail(chapters_to_include))

\* "(continued)" in ch_t
IsContinuation(ch_t) == Contains(ch_t, CONT_MARK)

\* header: the book title heading of the first document
Header(i, title) ==
    IF i = 0 THEN <<[tag |-> "h1", text |-> html_escape(title)]>> ELSE <<>>

\* display_title_xhtml
TitleHeading(ch_t) ==
    IF IsContinuation(ch_t) THEN <<>>
    ELSE <<[tag |-> "h2", text |-> html_escape(ch_t)]>>

\* "".join([f"<p>{l}</p>" for l in ch_l])
Paragraphs(ch_l) == [k \in 1..Len(ch_l) |-> [tag |-> "p", text |-> ch_l[k]]]

\* the body of document i (0-based) for the chunk (ch_t, ch_l)
Xhtml(i, chunk, title) ==
    Header(i, title) \o TitleHeading(chunk.t) \o Paragraphs(chunk.l)

ChapterEntry(i, chunk, title) ==
    Entry(InOEBPS(fname(i)), "DEFLATED", Xhtml(i, chunk, title))

ChapterItem(i) == [id |-> Id("c", i), href |-> fname(i)]

\* the navPoint of document i
NavPoint(i, chunk) ==
    [id |-> Id("p", i), playOrder |-> i + 1,
     text |-> html_escape(chunk.t), src |-> fname(i)]

\* whether document i gets a navPoint
InNav(chunk) == ~IsContinuation(chunk.t)

\* nav_points: the navPoints in document order
nav_points(chunks) ==
    LET RECURSIVE Nav(_)
        Nav(i) == IF i >= Len(chunks) THEN <<>>
                  ELSE (IF InNav(chunks[i + 1])
                        THEN <<NavPoint(i, chunks[i + 1])>> ELSE <<>>)
                       \o Nav(i + 1)
    IN  Nav(0)

\* has_font and font_type == RIDI
EmbedFont(has_font, font_type) == has_font /\ font_type = RIDI

FontName == Name(<<"fonts">>, "RIDIBatang.otf", 0)

\* the font is written when it is embedded
FontEntries(has_font, font_type) ==
    IF EmbedFont(has_font, font_type)
    THEN <<Entry(InOEBPS(FontName), "DEFLATED", "font")>> ELSE <<>>

\* font_manifest that lists the font whenever the file exists, whatever the
\* selected font.
FontManifest_IgnoreSelection(has_font, font_type) ==
    IF has_font THEN <<[id |-> Id("f", 0), href |-> FontName]>> ELSE <<>>

\* font_manifest
FontManifest(has_font, font_type) ==
    IF EmbedFont(has_font, font_type)
    THEN <<[id |-> Id("f", 0), href |-> FontName]>> ELSE <<>>

CoverName == Name(<<>>, "cover.jpg", 0)

\* if cover_io: zf.writestr("OEBPS/cover.jpg", ...)
CoverEntries(cover_io) ==
    IF cover_io # NoCover
    THEN <<Entry(InOEBPS(CoverName), "DEFLATED", cover_io)>> ELSE <<>>

\* manifest_cover
CoverManifest(cover_io) ==
    IF cover_io # NoCover THEN <<[id |-> Id("cover", 0), href |-> CoverName]>>
    ELSE <<>>

\* css_content: the font family of body
Css(has_font, font_type) ==
    IF EmbedFont(has_font, font_type) THEN "RIDIBatang, serif"
    ELSE "Batang, Noto Serif KR, serif"

\* The archive in writing order, and the parts of toc.ncx and content.opf.
build_epub_buffer(chapters_to_include, title, font_type, cover_io, has_font) ==
    LET chunks == processed_chunks(chapters_to_include)
        n == Len(chunks)
        nav == nav_points(chunks)
        manifest ==
            <<[id |-> Id("ncx", 0), href |-> Name(<<>>, "toc.ncx", 0)],
              [id |-> Id("s", 0), href |-> Name(<<>>, "style.css", 0)]>>
            \o [k \in 1..n |-> ChapterItem(k - 1)]
            \o FontManifest(has_font, font_type)
            \o CoverManifest(cover_io)
        spine == [k \in 1..n |-> Id("c", k - 1)]
        opf == [title |-> html_escape(title),
                cover_tag |-> cover_io # NoCover,
                manifest |-> manifest,
                spine |-> spine]
        ncx == [docTitle |-> html_escape(title), navMap |-> nav]
    IN  [archive |->
            <<Entry(Name(<<>>, "mimetype", 0), "STORED", "application/epub+zip"),
              Entry(Name(<<"META-INF">>, "container.xml", 0), "DEFLATED",
                    "OEBPS/content.opf")>>
            \o FontEntries(has_font, font_type)
            \o <<Entry(InOEBPS(Name(<<>>, "style.css", 0)), "DEFLATED",
                       Css(has_font, font_type))>>
            \o [k \in 1..n |-> ChapterEntry(k - 1, chunks[k], title)]
            \o <<Entry(InOEBPS(Name(<<>>, "toc.ncx", 0)), "DEFLATED", ncx)>>
            \o CoverEntries(cover_io)
            \o <<Entry(InOEBPS(Name(<<>>, "content.opf", 0)), "DEFLATED", opf)>>,
         chunks |-> chunks,
         ncx |-> ncx,
         opf |-> opf]

(* ------------------------------------------------------------------ *)
(* The inputs of the script                                           *)
(* ------------------------------------------------------------------ *)

Rep(line, n) == [i \in 1..n |-> line]

Seqs(S, n) == UNION {[1..k -> S] : k \in 0..n}

\* The lines the enumerated texts are made of: a plain body line, a padded body
\* line with a character html.escape rewrites, a whitespace-only line, a numbered
\* title, a title in angle brackets, and a prose line that starts with ko_geu.
Lines ==
    {<<"ko_ga">>,
     <<" ", "&", "ko_ga", " ">>,
     <<" ">>,
     <<"ko_je", "1", "ko_hwa">>,
     <<"<", "ko_bu", "ko_rok", ">">>,
     <<"ko_geu", "ko_neun">>}

\* A few whole files: only whitespace; two chapters under numbered titles; a
\* line before the first title and a title in angle brackets; and a first
\* chapter one line longer than a chunk.
SampleTexts ==
    {<<<<" ">>>>,
     <<<<"ko_je", "1", "ko_hwa">>, <<"ko_ga">>,
       <<"ko_je", "2", "ko_hwa">>, <<"&">>>>,
     <<<<"ko_ga">>, <<"ko_je", "1", "ko_hwa">>, <<"ko_ga">>,
       <<"<", "ko_bu", "ko_rok", ">">>, <<"&">>>>,
     <<<<"ko_je", "1", "ko_hwa">>>> \o Rep(<<"ko_ga">>, chunk_size + 1)
        \o <<<<"ko_je", "2", "ko_hwa">>, <<"&">>>>}

\* Body lengths around the chunk size.
LongBodies == {chunk_size, 2 * chunk_size + 1}

\* Files with a paginated chapter, a paginated chapter whose title holds the
\* continuation mark, and digit-only lines at the length limit of a title.
LongTexts ==
    {<<<<"ko_je", "1", "ko_hwa">>>> \o Rep(<<"ko_ga">>, n)
        \o <<<<"ko_je", "2", "ko_hwa">>, <<"&">>>> : n \in LongBodies}
    \cup {<<<<"ko_je", "2", "ko_hwa", " ">> \o CONT_MARK>>
            \o Rep(<<"ko_ga">>, chunk_size + 1),
          <<Rep("1", MaxTitleLen), <<"ko_ga">>, Rep("1", MaxTitleLen + 1)>>}

\* the contents of the files the user may upload (text.splitlines())
Texts == Seqs(Lines, MaxLines) \cup SampleTexts \cup LongTexts

\* Path(u_txt.name).stem of the uploaded file
FileStem == <<"A", "_", "&", "B">>

\* the three re.sub calls and the strip that make clean_name
RECURSIVE CollapseSpaces(_)
CollapseSpaces(s) ==
    IF s = <<>> THEN <<>>
    ELSE IF Head(s) \in Whitespace
         THEN <<" ">> \o CollapseSpaces(SubSeq(s, SkipWhile(s, 1, Whitespace), Len(s)))
         ELSE <<Head(s)>> \o CollapseSpaces(Tail(s))

clean_name(raw_filename) ==
    LET IsLegal(c) == c \notin {"/", ":", "*", "?", "\"", "<", ">", "|", "\\"}
        spaced == [i \in 1..Len(raw_filename) |->
                     IF raw_filename[i] \in {"+", "_"} THEN " " ELSE raw_filename[i]]
    IN  strip(CollapseSpaces(SelectSeq(spaced, IsLegal)))

\* display_title when no file is loaded, "no title"
DEFAULT_TITLE == <<"ko_je", "ko_mok", " ", "ko_eop", "ko_eum">>

\* font_options
font_options(f_exists) ==
    IF f_exists THEN {RIDI, "Myeongjo", "Gothic"} ELSE {"Myeongjo", "Gothic"}

\* An image URL as is_valid_image_url reads it: its scheme and its extension.
Url(scheme, ext) == [scheme |-> scheme, ext |-> ext]

is_valid_image_url(url) ==
    /\ url.scheme \in {"http://", "https://"}
    /\ url.ext \in {".jpg", ".jpeg", ".png", ".webp", ".gif"}

\* the 'image' fields a search may return
UrlPool == {Url("https://", ".jpg"), Url("https://", ".html")}

\* list(ddgs.images(search_q, max_results=6))
SearchAnswers ==
    Seqs(UrlPool, IF MaxResults < max_results THEN MaxResults ELSE max_results)

(* ------------------------------------------------------------------ *)
(* The state: widgets, st.session_state and what the last run produced *)
(* ------------------------------------------------------------------ *)

VARIABLES
    u_txt,            \* the TXT uploader: [present, lines]
    display_title,    \* the book title input
    has_font,         \* os.path.exists("RIDIBatang.otf")
    f_type,           \* the font selectbox
    use_split,        \* the split-mode radio: TRUE is "apply chapter splitting"
    unchecked,        \* the indices idx whose checkbox ch_{idx} is unticked
    cover_mode,       \* the cover radio: "upload" or "search"
    u_cover,          \* the cover uploader
    search_results,   \* st.session_state.search_results
    final_cover_io,   \* st.session_state.final_cover_io
    refresh_needed,   \* st.session_state.refresh_needed
    conversion_stats, \* st.session_state.conversion_stats
    temp_chapters,    \* the chapters the scan of the last run detected
    final_chapters,   \* final_chapters of the last run
    epub,             \* <<the archive the last run built>>, or <<>>
    branch,           \* the branch of the download section the last run took
    fetch             \* the cover download of the last run: none, ok or failed

vars ==
    <<u_txt, display_title, has_font, f_type, use_split, unchecked, cover_mode,
      u_cover, search_results, final_cover_io, refresh_needed, conversion_stats,
      temp_chapters, final_chapters, epub, branch, fetch>>

NoFile == [present |-> FALSE, lines |-> <<>>]

\* conversion_stats = None
NoStats == [set |-> FALSE, chapters |-> 0, lines |-> 0]

Stats(final) == [set |-> TRUE, chapters |-> Len(final), lines |-> total_lines(final)]

\* what the user did to start the run
NoClick == [kind |-> "none", ok |-> TRUE, answer |-> <<>>, idx |-> 0, outcome |-> "200"]

(* ------------------------------------------------------------------ *)
(* One run of the script                                              *)
(* ------------------------------------------------------------------ *)

\* the session state after the top of the script: a pending refresh clears the
\* search results and the cover, and the script reruns
SessionAtTop(refresh) ==
    IF refresh THEN [search_results |-> <<>>, final_cover_io |-> NoCover]
    ELSE [search_results |-> search_results, final_cover_io |-> final_cover_io]

\* temp_chapters: the chapters the scan detects (split mode only)
DetectedChapters(txt, split) ==
    IF txt.present /\ split THEN split_chapters(txt.lines) ELSE <<>>

\* selected_indices: the indices whose checkbox is ticked
SelectedIndices(temp, unch) == (0..(Len(temp) - 1)) \ unch

\* final_chapters at the end of column 1
FinalChapters(txt, split, temp, selected_indices) ==
    IF ~txt.present THEN <<>>
    ELSE IF split THEN merge_chapters(temp, selected_indices)
    ELSE unsplit_chapters(txt.lines)

\* st.session_state.conversion_stats at the end of column 1
StatsAfter(txt, split, temp, final, stats) ==
    IF ~txt.present THEN stats
    ELSE IF split THEN (IF temp # <<>> THEN Stats(final) ELSE stats)
    ELSE Stats(final)

\* CoverSection in which a failed download clears the stored cover.
CoverSection_ClearOnFailure(mode, ucover, results, cover, click) ==
    IF mode = "upload"
    THEN [search_results |-> results,
          final_cover_io |-> IF ucover # NoCover THEN ucover ELSE cover,
          rerun |-> FALSE, fetch |-> "none"]
    ELSE LET found == IF click.kind = "search" /\ click.ok
                      THEN SelectSeq(click.answer, is_valid_image_url)
                      ELSE results
             selecting == click.kind = "select" /\ click.idx < Len(found)
             got == selecting /\ click.outcome = "200"
         IN  [search_results |-> found,
              final_cover_io |-> IF got THEN "downloaded"
                                 ELSE IF selecting THEN NoCover ELSE cover,
              rerun |-> got,
              fetch |-> IF got THEN "ok" ELSE IF selecting THEN "failed" ELSE "none"]

\* column 2: the cover is uploaded, or searched for and downloaded
CoverSection(mode, ucover, results, cover, click) ==
    IF mode = "upload"
    THEN [search_results |-> results,
          final_cover_io |-> IF ucover # NoCover THEN ucover ELSE cover,
          rerun |-> FALSE, fetch |-> "none"]
    ELSE LET found == IF click.kind = "search" /\ click.ok
                      THEN SelectSeq(click.answer, is_valid_image_url)
                      ELSE results
             selecting == click.kind = "select" /\ click.idx < Len(found)
             got == selecting /\ click.outcome = "200"
         IN  [search_results |-> found,
              final_cover_io |-> IF got THEN "downloaded" ELSE cover,
              rerun |-> got,
              fetch |-> IF got THEN "ok" ELSE IF selecting THEN "failed" ELSE "none"]

\* st.rerun() after a downloaded cover was stored: column 2 runs again, with no
\* button pressed, on the session state the first pass left
CoverAfterRerun(mode, ucover, cov) ==
    IF cov.rerun
    THEN [CoverSection(mode, ucover, cov.search_results, cov.final_cover_io, NoClick)
             EXCEPT !.fetch = cov.fetch]
    ELSE cov

\* the download section: the archive is built, or the warning is shown
DownloadSection(txt, final, title, font, cover, f_exists) ==
    IF txt.present /\ final # <<>>
    THEN [branch |-> "download",
          epub |-> <<build_epub_buffer(final, title, font, cover, f_exists)>>]
    ELSE IF txt.present THEN [branch |-> "warning", epub |-> <<>>]
    ELSE [branch |-> "idle", epub |-> <<>>]

\* An event: the widgets take their new values and the script runs to its end.
\* The bound names are the script's own variables, in the order it sets them.
\* A rerun (after the refresh, after a stored cover) reads the same widgets, so
\* column 1 computes the same values again.
Run(txt, title, split, unch, font, mode, ucover, refresh, click) ==
    \E session \in {SessionAtTop(refresh)} :
    \E temp \in {DetectedChapters(txt, split)} :
    \E final \in {FinalChapters(txt, split, temp, SelectedIndices(temp, unch))} :
    \E first \in {CoverSection(mode, ucover, session.search_results,
                               session.final_cover_io, click)} :
    \E cov \in {CoverAfterRerun(mode, ucover, first)} :
    \E down \in {DownloadSection(txt, final, title, font, cov.final_cover_io,
                                 has_font)} :
        /\ u_txt' = txt
        /\ display_title' = title
        /\ use_split' = split
        /\ f_type' = font
        /\ cover_mode' = mode
        /\ u_cover' = ucover
        /\ unchecked' = unch \cap (0..(Len(temp) - 1))
        /\ temp_chapters' = temp
        /\ final_chapters' = final
        /\ conversion_stats' = StatsAfter(txt, split, temp, final, conversion_stats)
        /\ search_results' = cov.search_results
        /\ final_cover_io' = cov.final_cover_io
        /\ refresh_needed' = FALSE
        /\ fetch' = cov.fetch
        /\ branch' = down.branch
        /\ epub' = down.epub
        /\ UNCHANGED has_font

(* ------------------------------------------------------------------ *)
(* The first run and the events                                       *)
(* ------------------------------------------------------------------ *)

Init ==
    /\ has_font \in BOOLEAN
    /\ u_txt = NoFile
    /\ display_title = DEFAULT_TITLE
    /\ f_type = IF has_font THEN RIDI ELSE "Myeongjo"
    /\ use_split = TRUE
    /\ unchecked = {}
    /\ cover_mode = "upload"
    /\ u_cover = NoCover
    /\ search_results = <<>>
    /\ final_cover_io = NoCover
    /\ refresh_needed = FALSE
    /\ conversion_stats = NoStats
    /\ temp_chapters = <<>>
    /\ final_chapters = <<>>
    /\ epub = <<>>
    /\ branch = "idle"
    /\ fetch = "none"

\* a file is put into the TXT uploader
UploadTxt(text) ==
    /\ ~u_txt.present
    /\ Run([present |-> TRUE, lines |-> text], clean_name(FileStem), use_split,
           unchecked, f_type, cover_mode, u_cover, FALSE, NoClick)

\* the file is taken out of the TXT uploader
RemoveTxt ==
    /\ u_txt.present
    /\ Run(NoFile, DEFAULT_TITLE, use_split, unchecked, f_type, cover_mode, u_cover,
           FALSE, NoClick)

\* the split-mode radio is switched
SetSplit ==
    Run(u_txt, display_title, ~use_split, unchecked, f_type, cover_mode, u_cover,
        FALSE, NoClick)

\* the checkbox of the detected chapter idx is ticked or unticked
ToggleChapter(idx) ==
    /\ idx < Len(temp_chapters)
    /\ Run(u_txt, display_title, use_split,
           IF idx \in unchecked THEN unchecked \ {idx} ELSE unchecked \cup {idx},
           f_type, cover_mode, u_cover, FALSE, NoClick)

\* another font is selected
SelectFont(f) ==
    /\ f \in font_options(has_font)
    /\ f # f_type
    /\ Run(u_txt, display_title, use_split, unchecked, f, cover_mode, u_cover,
           FALSE, NoClick)

\* the cover radio is switched; the uploader of the upload mode is not kept
SetCoverMode ==
    Run(u_txt, display_title, use_split, unchecked, f_type,
        IF cover_mode = "upload" THEN "search" ELSE "upload", NoCover,
        FALSE, NoClick)

\* an image is put into, or taken out of, the cover uploader
UploadCover ==
    /\ cover_mode = "upload"
    /\ Run(u_txt, display_title, use_split, unchecked, f_type, cover_mode,
           IF u_cover = NoCover THEN "uploaded" ELSE NoCover, FALSE, NoClick)

\* the search button: the search answers, or raises
ClickSearch(ok, answer) ==
    /\ cover_mode = "search"
    /\ Run(u_txt, display_title, use_split, unchecked, f_type, cover_mode, u_cover,
           FALSE,
           [kind |-> "search", ok |-> ok, answer |-> answer, idx |-> 0,
            outcome |-> "200"])

\* the select button of search result idx: requests.get answers 200, answers
\* another status, or raises
ClickSelect(idx, outcome) ==
    /\ cover_mode = "search"
    /\ idx < Len(search_results)
    /\ Run(u_txt, display_title, use_split, unchecked, f_type, cover_mode, u_cover,
           FALSE,
           [kind |-> "select", ok |-> TRUE, answer |-> <<>>, idx |-> idx,
            outcome |-> outcome])

\* the download button: trigger_refresh sets refresh_needed, then the script runs
ClickDownload ==
    /\ branch = "download"
    /\ Run(u_txt, display_title, use_split, unchecked, f_type, cover_mode, u_cover,
           TRUE, NoClick)

Next ==
    \/ \E text \in SampleTexts : UploadTxt(text)
    \/ RemoveTxt
    \/ SetSplit
    \/ \E idx \in 0..(Len(temp_chapters) - 1) : ToggleChapter(idx)
    \/ \E f \in font_options(has_font) : SelectFont(f)
    \/ SetCoverMode
    \/ UploadCover
    \/ \E ok \in BOOLEAN : \E answer \in SearchAnswers : ClickSearch(ok, answer)
    \/ \E idx \in 0..(Len(search_results) - 1) :
          \E outcome \in {"200", "404", "exception"} : ClickSelect(idx, outcome)
    \/ ClickDownload

\* The application with a handful of files and every widget.
Spec == Init /\ [][Next]_vars

NextText ==
    \/ \E text \in Texts : UploadTxt(text)
    \/ RemoveTxt
    \/ SetSplit
    \/ \E idx \in 0..(Len(temp_chapters) - 1) : ToggleChapter(idx)

\* The text column alone, with every text of at most MaxLines lines: the user
\* leaves the font and the cover as they are.
SpecText == Init /\ [][NextText]_vars

(* ------------------------------------------------------------------ *)
(* What the properties read off a state                               *)
(* ------------------------------------------------------------------ *)

\* the stripped, non-empty lines of the loaded text
InputLines == Scanned(u_txt.lines)

SplitRun == u_txt.present /\ use_split

\* titles as one line each, plus every body line
LineCount(chs) == Len(chs) + total_lines(chs)

\* the lines of a chapter list in reading order, each in escaped form: a title
\* (other than the accumulator's first title, which is no input line) is
\* escaped here, a body line is taken as stored
RECURSIVE EscapedItems(_)
EscapedItems(chs) ==
    IF chs = <<>> THEN <<>>
    ELSE (IF Head(chs).t = START_TITLE THEN <<>> ELSE <<html_escape(Head(chs).t)>>)
         \o Head(chs).l \o EscapedItems(Tail(chs))

\* every body line of a chapter list
RECURSIVE BodyLines(_)
BodyLines(chs) ==
    IF chs = <<>> THEN {}
    ELSE {Head(chs).l[k] : k \in 1..Len(Head(chs).l)} \cup BodyLines(Tail(chs))

\* the number of documents written for the chapters before the k-th
RECURSIVE DocsBefore(_, _)
DocsBefore(chs, k) ==
    IF k <= 1 THEN 0
    ELSE DocsBefore(chs, k - 1) + NumChunks(Len(chs[k - 1].l))

Built == epub # <<>>

\* the archive member written under a name
Member(name) ==
    LET hits == {k \in 1..Len(epub[1].archive) : epub[1].archive[k].name = name}
    IN  epub[1].archive[CHOOSE k \in hits : TRUE]

IsWritten(name) ==
    \E k \in 1..Len(epub[1].archive) : epub[1].archive[k].name = name

\* the body of document i
Doc(i) == Member(InOEBPS(fname(i))).content

TextsOf(doc, tag) ==
    LET HasTag(el) == el.tag = tag
        els == SelectSeq(doc, HasTag)
    IN  [k \in 1..Len(els) |-> els[k].text]

\* the paragraphs of documents i .. i+n-1, in order
RECURSIVE ParagraphsFrom(_, _)
ParagraphsFrom(i, n) ==
    IF n = 0 THEN <<>> ELSE TextsOf(Doc(i), "p") \o ParagraphsFrom(i + 1, n - 1)

\* the names of the chapter documents in writing order
WrittenChapterDocs ==
    LET IsChapterDoc(en) == en.name.file = "ch_N.xhtml"
        docs == SelectSeq(epub[1].archive, IsChapterDoc)
    IN  [k \in 1..Len(docs) |-> docs[k].name]

\* the href a spine itemref resolves to through the manifest
HrefOf(id) ==
    LET m == epub[1].opf.manifest
    IN  m[CHOOSE k \in 1..Len(m) : m[k].id = id].href

HasCover ==
    \/ IsWritten(InOEBPS(CoverName))
    \/ \E k \in 1..Len(epub[1].opf.manifest) : epub[1].opf.manifest[k].id = Id("cover", 0)
    \/ epub[1].opf.cover_tag

(* ------------------------------------------------------------------ *)
(* The chapter-splitting scan                                         *)
(* ------------------------------------------------------------------ *)

\* C1 (as claimed): after the scan every non-empty stripped input line appears
\* exactly once in the chapter list, as a title or as a body line, in the
\* original order. html.escape is one-to-one, so the lines are compared in
\* escaped form: the escaped input lines are the escaped titles and the stored
\* body lines, in order.
C1_LosslessSegmentation ==
    SplitRun => EscapedItems(temp_chapters) = EscapeAll(InputLines)

\* no non-empty line of the loaded text is classified as a title
NoTitleLine == \A k \in 1..Len(InputLines) : ~is_chapter_title(InputLines[k])

\* C8 (as claimed): a text none of whose lines is a title gives exactly one
\* chapter, titled BODY_TITLE, that holds every escaped non-empty line in order.
C8_FallbackTotality ==
    (SplitRun /\ NoTitleLine)
        => temp_chapters = <<Chapter(BODY_TITLE, EscapeAll(InputLines))>>

\* C8 (amended): a text none of whose lines is a title gives exactly one
\* chapter, titled START_TITLE, that holds every escaped non-empty line in
\* order, when it has a non-empty line, and no chapter when it has none.
C8_FallbackTotalityAmended ==
    (SplitRun /\ NoTitleLine)
        => temp_chapters =
              IF InputLines = <<>> THEN <<>>
              ELSE <<Chapter(START_TITLE, EscapeAll(InputLines))>>

\* a text of two body lines, one of them rewritten by html.escape, was split
C8_Witness ==
    /\ SplitRun /\ NoTitleLine
    /\ Len(temp_chapters) = 1
    /\ Len(temp_chapters[1].l) >= 2
    /\ \E k \in 1..Len(InputLines) : html_escape(InputLines[k]) # InputLines[k]

(* ------------------------------------------------------------------ *)
(* The chapter filter merge                                           *)
(* ------------------------------------------------------------------ *)

\* C2 (as claimed): for every set of kept indices the merged list has as many
\* lines, titles counted as lines, as the detected list.
C2_MergeConservation ==
    SplitRun => LineCount(final_chapters) = LineCount(temp_chapters)

\* C2 (amended): the merged list has as many lines as the detected list when
\* chapter 0 is kept, and one more (the BODY_TITLE of the bucket) when chapter 0
\* is excluded; the bucket then opens with the bracketed title of chapter 0.
C2_MergeConservationAmended ==
    SplitRun =>
        IF temp_chapters # <<>> /\ 0 \in unchecked
        THEN /\ LineCount(final_chapters) = LineCount(temp_chapters) + 1
             /\ final_chapters[1].t = BODY_TITLE
             /\ final_chapters[1].l[1] = Bracketed(temp_chapters[1].t)
        ELSE LineCount(final_chapters) = LineCount(temp_chapters)

\* of three detected chapters the first is excluded and opens the bucket, the
\* second is kept, and the third is excluded and folded into the second
C2_Witness ==
    /\ SplitRun
    /\ Len(temp_chapters) = 3
    /\ unchecked = {0, 2}
    /\ Len(final_chapters) = 2
    /\ final_chapters[1].t = BODY_TITLE
    /\ final_chapters[2].l =
          temp_chapters[2].l \o <<Bracketed(temp_chapters[3].t)>> \o temp_chapters[3].l

\* the source text a body line can come from: a stripped input line, or the
\* bracket-wrapped title of an excluded chapter
SourceLines ==
    LET input == {InputLines[k] : k \in 1..Len(InputLines)}
    IN  input \cup {Bracketed(t) : t \in input \cup {START_TITLE}}

\* C6 (as claimed): every body line that reaches build_epub_buffer is the
\* html.escape, applied once, of a source line: of a stripped input line, or of
\* the bracket-wrapped title of an excluded chapter.
C6_EscapedOnce ==
    branch = "download" =>
        \A line \in BodyLines(final_chapters) :
            \E src \in SourceLines : line = html_escape(src)

(* ------------------------------------------------------------------ *)
(* is_chapter_title                                                   *)
(* ------------------------------------------------------------------ *)

StartsWith(cl, word) == Len(cl) >= Len(word) /\ SubSeq(cl, 1, Len(word)) = word

\* "Chapter", in the three spellings the pattern lists, then \s+\d+
WordChapter(cl) ==
    \E w \in {<<"C", "h", "a", "p", "t", "e", "r">>,
              <<"C", "H", "A", "P", "T", "E", "R">>,
              <<"c", "h", "a", "p", "t", "e", "r">>} :
        /\ StartsWith(cl, w)
        /\ LET a == SkipWhile(cl, Len(w) + 1, Whitespace)
           IN  a > Len(w) + 1 /\ At(cl, a, Digits)

\* "EP", in the three spellings the pattern lists, then \s*\.?\s*\d+
WordEp(cl) ==
    \E w \in {<<"E", "P">>, <<"e", "p">>, <<"E", "p">>} :
        /\ StartsWith(cl, w)
        /\ LET a == SkipWhile(cl, Len(w) + 1, Whitespace)
               b == SkipOpt(cl, a, {"."})
           IN  At(cl, SkipWhile(cl, b, Whitespace), Digits)

\* the whole word prologue or epilogue at the start of the line
WordPrologue(cl) ==
    \/ StartsWith(cl, <<"ko_peu", "ko_rol", "ko_ro", "ko_geu">>)
    \/ StartsWith(cl, <<"ko_e", "ko_pil", "ko_ro", "ko_geu">>)
    \/ StartsWith(cl, <<"e", "p", "i", "l", "o", "g", "u", "e">>)

DocumentedTitleForm(cl) ==
    /\ Len(cl) >= 1 /\ Len(cl) <= MaxTitleLen
    /\ \/ MatchJe(cl)
       \/ MatchNumbered(cl)
       \/ WordChapter(cl)
       \/ WordEp(cl)
       \/ MatchBracketNum(cl)
       \/ WordPrologue(cl)
       \/ MatchDigitsOnly(cl)
       \/ MatchWrapped(cl)

\* C7 (as claimed): a line the scan took for a title (the title of a detected
\* chapter, the accumulator's first title aside) has one of the documented title
\* forms, its words matched whole.
C7_ClassifierSoundness ==
    SplitRun =>
        \A k \in 1..Len(temp_chapters) :
            temp_chapters[k].t # START_TITLE
                => DocumentedTitleForm(temp_chapters[k].t)

(* ------------------------------------------------------------------ *)
(* build_epub_buffer                                                  *)
(* ------------------------------------------------------------------ *)

\* C3 (as claimed): the documents of every chapter passed to build_epub_buffer
\* are consecutive in the spine, their paragraphs in spine order are the
\* chapter's body, the first carries the chapter's title and its second-level
\* heading, and every later one carries the continued title and no heading.
C3_PaginationOrder ==
    Built =>
        \A k \in 1..Len(final_chapters) :
            LET ch == final_chapters[k]
                n == NumChunks(Len(ch.l))
                off == DocsBefore(final_chapters, k)
            IN  /\ off + n <= Len(epub[1].opf.spine)
                /\ \A m \in 1..n : epub[1].opf.spine[off + m] = Id("c", off + m - 1)
                /\ ParagraphsFrom(off, n) = ch.l
                /\ n >= 1 =>
                      /\ epub[1].chunks[off + 1].t = ch.t
                      /\ TextsOf(Doc(off), "h2") = <<html_escape(ch.t)>>
                /\ \A m \in 2..n :
                      /\ epub[1].chunks[off + m].t = ContinuedTitle(ch.t)
                      /\ TextsOf(Doc(off + m - 1), "h2") = <<>>

\* the chapters that have a document: those with a body line
ChaptersWithDocs ==
    LET HasBody(k) == final_chapters[k].l # <<>>
    IN  SelectSeq([k \in 1..Len(final_chapters) |-> k], HasBody)

\* C4 (as claimed): the navigation map has, in chapter order, exactly one entry
\* for the first document of each chapter, whatever its title, and none for a
\* continuation; the k-th entry has play order k, the escaped title as its
\* label, and refers to that document, which was written.
C4_NavigationMap ==
    Built =>
        LET nav == epub[1].ncx.navMap
        IN  /\ Len(nav) = Len(ChaptersWithDocs)
            /\ \A k \in 1..Len(nav) :
                  LET c == ChaptersWithDocs[k]
                  IN  /\ nav[k].playOrder = k
                      /\ nav[k].text = html_escape(final_chapters[c].t)
                      /\ nav[k].src = fname(DocsBefore(final_chapters, c))
                      /\ IsWritten(InOEBPS(nav[k].src))

\* C5: in every archive that is built the first member is the mimetype, stored
\* uncompressed and with the fixed content; every item of the manifest has a
\* member written under OEBPS/; and the spine resolves, through the manifest,
\* to the chapter documents in the order they were written, one itemref per
\* chunk and none twice.
C5_ArchiveConformance ==
    Built =>
        LET e == epub[1]
        IN  /\ e.archive[1] = Entry(Name(<<>>, "mimetype", 0), "STORED",
                                    "application/epub+zip")
            /\ \A k \in 1..Len(e.opf.manifest) :
                  IsWritten(InOEBPS(e.opf.manifest[k].href))
            /\ \A k \in 1..Len(e.opf.spine) :
                  \E m \in 1..Len(e.opf.manifest) :
                      e.opf.manifest[m].id = e.opf.spine[k]
            /\ [k \in 1..Len(e.opf.spine) |-> InOEBPS(HrefOf(e.opf.spine[k]))]
                  = WrittenChapterDocs
            /\ Len(e.opf.spine) = Len(e.chunks)
            /\ \A a, b \in 1..Len(e.opf.spine) :
                  e.opf.spine[a] = e.opf.spine[b] => a = b

\* an archive was built with the embedded font, a cover and a continuation
\* document: its manifest lists them all next to toc.ncx and style.css
C5_Witness ==
    /\ Built
    /\ has_font /\ f_type = RIDI
    /\ final_cover_io # NoCover
    /\ Len(epub[1].chunks) > Len(final_chapters)
    /\ Len(epub[1].opf.manifest) = Len(epub[1].chunks) + 4
    /\ IsWritten(InOEBPS(FontName)) /\ IsWritten(InOEBPS(CoverName))

\* some chapter handed to the download section has a body line
HasContent == \E k \in 1..Len(final_chapters) : final_chapters[k].l # <<>>

\* C10 (as claimed): the archive is built only when the text has a non-empty
\* line that becomes a body line, the warning branch is taken when the loaded
\* text has none, and every archive built has a chapter document, a non-empty
\* spine and the book title heading in its first document.
C10_PackagingGuard ==
    /\ (u_txt.present /\ ~HasContent) => branch = "warning"
    /\ branch = "download" =>
          /\ HasContent
          /\ Built
          /\ WrittenChapterDocs # <<>>
          /\ epub[1].opf.spine # <<>>
          /\ TextsOf(Doc(0), "h1") = <<html_escape(display_title)>>

(* ------------------------------------------------------------------ *)
(* The cover download                                                 *)
(* ------------------------------------------------------------------ *)

\* the run was not cut short: the download section took the branch the text
\* calls for
NotAborted ==
    /\ (u_txt.present /\ final_chapters # <<>>) => (branch = "download" /\ Built)
    /\ (u_txt.present /\ final_chapters = <<>>) => branch = "warning"

\* C9 (as claimed): in a run whose cover download failed the conversion is not
\* aborted and the archive it builds has no cover.
C9_FetchFailureNoCover ==
    fetch = "failed" => (NotAborted /\ (Built => ~HasCover))

\* C9 (amended): a run whose cover download fails is not aborted, leaves the
\* stored cover as it was before the click, and builds its archive with a cover
\* exactly when a cover was stored before.
C9_FetchFailureKeepsCover ==
    [][fetch' = "failed" =>
          /\ NotAborted'
          /\ final_cover_io' = final_cover_io
          /\ search_results' = search_results
          /\ Built' => (HasCover' <=> final_cover_io # NoCover)]_vars

\* a cover download failed in a run that built an archive, with a cover stored
\* by an earlier run
C9_Witness ==
    /\ fetch = "failed"
    /\ Built
    /\ final_cover_io # NoCover

====
